---- MODULE Spec2Model ----
(***************************************************************************)
(* A model of the SMART client of src/src/client.ts: the authorized        *)
(* request pipeline (request), the refresh-token exchange (refresh) and    *)
(* the page walker (getPages), run by a few concurrent callers that share  *)
(* one client state.  A step of the model is one synchronous run of        *)
(* JavaScript: a call up to the point it hands a request to the HTTP       *)
(* transport, or one promise callback.                                     *)
(***************************************************************************)
EXTENDS Integers, Sequences, FiniteSets, TLC

\* ------------------------------------------------------------------ bounds
\* History counters of one request() call saturate at this value.
MaxCount == 3
\* Largest maxPages argument tried (the smallest is MinPagesArg).
MaxN == 4
\* A walk is cut off by the model after this many page fetches.
MaxFetch == MaxN + 1

\* The callers that may have a call in flight on the same state.
Procs == {1, 2}
MinPagesArg == 0 - 1

\* ------------------------------------------------------------ value domains
Fields        == {"access_token", "refresh_token", "patient"}

\* The token responses a client can be constructed with.
InitialTokenResponses ==
    { f \in UNION { [S -> {"a1", "r1", "p1"}] : S \in SUBSET Fields } :
        /\ "access_token"  \in DOMAIN f => f["access_token"]  = "a1"
        /\ "refresh_token" \in DOMAIN f => f["refresh_token"] = "r1"
        /\ "patient"       \in DOMAIN f => f["patient"]       = "p1" }

\* The token responses an authorization can have ended with, the launch
\* context and the id_token present or not.
ContextFields == {"access_token", "refresh_token", "patient", "encounter", "id_token"}
FieldValue(f) ==
    CASE f = "access_token"  -> "a1"
      [] f = "refresh_token" -> "r1"
      [] f = "patient"       -> "p1"
      [] f = "encounter"     -> "enc1"
      [] f = "id_token"      -> "jwt1"
ContextTokenResponses ==
    { [f \in S |-> FieldValue(f)] : S \in SUBSET ContextFields }

\* state.scope: the space-delimited string as the sequence of its items.
DefaultScope == <<"launch", "openid", "connect">>
Scopes == { <<>>, <<"launch/patient">>, <<"openid", "profile">>, DefaultScope }
\* The words of a scope item, as the \b of a regular expression delimits
\* them.
Words(item) ==
    CASE item = "launch/patient"   -> {"launch", "patient"}
      [] item = "launch/encounter" -> {"launch", "encounter"}
      [] OTHER                     -> {item}

\* The bodies a token endpoint may answer a refresh exchange with.
RefreshData ==
    { f \in UNION { [S -> {"a2", "r2"}] : S \in SUBSET {"access_token", "refresh_token"} } :
        /\ "access_token"  \in DOMAIN f => f["access_token"]  = "a2"
        /\ "refresh_token" \in DOMAIN f => f["refresh_token"] = "r2" }

\* Error bodies of the resource server, by name.
BodyIds == {"plain", "oo2", "oo1", "oo0", "ooNone"}
Issue1 == [severity |-> "error",   code |-> "invalid",  diagnostics |-> "bad param"]
Issue2 == [severity |-> "warning", code |-> "timeout",  diagnostics |-> "slow"]
Body(id) ==
    CASE id = "plain"  -> [resourceType |-> "Patient"]
      [] id = "oo2"    -> [resourceType |-> "OperationOutcome", issue |-> <<Issue1, Issue2>>]
      [] id = "oo1"    -> [resourceType |-> "OperationOutcome", issue |-> <<Issue1>>]
      [] id = "oo0"    -> [resourceType |-> "OperationOutcome", issue |-> <<>>]
      [] id = "ooNone" -> [resourceType |-> "OperationOutcome"]

\* Header values: <<>> is "no Authorization header".
NoHeader     == <<>>
CallerHeader == <<"Basic", "caller">>
Bearer(tok)  == <<"Bearer", tok>>

\* ------------------------------------------------------------------- pages
\* The server's page chains: Chains[c][u] is the page the "next" link of page
\* u points to, 0 when page u has no "next" link.
Chains == <<
    <<0, 0, 0>>,      \* one page
    <<2, 0, 0>>,      \* page1 -> page2
    <<2, 3, 0>>,      \* page1 -> page2 -> page3
    <<2, 1, 0>>,      \* page1 -> page2 -> page1 -> ... (cyclic)
    <<1, 0, 0>> >>    \* page1 -> page1 -> ...          (cyclic)
ChainIds == 1..Len(Chains)
\* The bundle the server answers the request for page u of chain c with.
\* Page 2 carries no entry list at all.
PageEntries == << <<"e1", "e2">>, <<>>, <<"e3">> >>
Bundle(c, u) ==
    LET links == <<[relation |-> "self", url |-> u]>> \o
                 (IF Chains[c][u] = 0 THEN <<>>
                  ELSE <<[relation |-> "next", url |-> Chains[c][u]]>>)
    IN  IF u = 2 THEN [resourceType |-> "Bundle", link |-> links]
        ELSE [resourceType |-> "Bundle", entry |-> PageEntries[u], link |-> links]

\* ------------------------------------------------------------------ values
Undefined == "undefined"
\* JavaScript truthiness of a token-response value.
Truthy(v) == v # Undefined /\ v # ""

\* Errors, as the caller can tell them apart.
NoError == [type |-> "none", origin |-> "-", status |-> 0, body |-> "-", message |-> ""]
\* The transport's rejection: status 0 stands for "no response received".
AxiosError(origin, status, body) ==
    [type |-> "AxiosError", origin |-> origin, status |-> status, body |-> body,
     message |-> ""]
\* new Error(message)
Error(message) ==
    [type |-> "Error", origin |-> "client", status |-> 0, body |-> "-",
     message |-> message]
TypeError ==
    [type |-> "TypeError", origin |-> "client", status |-> 0, body |-> "-",
     message |-> "Cannot read property 'length' of undefined"]

\* lib: getPath(state, "tokenResponse.<field>")
getPath(s, field) ==
    IF s.hasTokenResponse /\ field \in DOMAIN s.tokenResponse
    THEN s.tokenResponse[field] ELSE Undefined
\* lib: getErrorText(name)
getErrorText(name) ==
    IF name = "no_fhir_response" THEN "No response received from the FHIR server" ELSE name
\* lib: getBundleURL(bundle, rel): the url of the first link whose relation is
\* rel, 0 when there is none.
getBundleURL(bundle, rel) ==
    LET hits == { i \in DOMAIN bundle.link : bundle.link[i].relation = rel }
    IN  IF hits = {} THEN 0
        ELSE bundle.link[CHOOSE i \in hits : \A j \in hits : i <= j].url

\* errors.join("\n") of the issues' texts
RECURSIVE JoinIssues(_)
JoinIssues(issue) ==
    IF Len(issue) = 0 THEN ""
    ELSE LET o == Head(issue)
             line == o.severity \o " " \o o.code \o " " \o o.diagnostics
         IN  IF Len(issue) = 1 THEN line
             ELSE line \o "\n" \o JoinIssues(Tail(issue))

\* ------------------------------------------------------------------- state
VARIABLES
    state,         \* this.state: hasTokenResponse, tokenResponse
    pc,            \* pc[p]: where caller p's call is suspended
    op,            \* op[p]: the public method caller p called last
    options,       \* options[p]: the request options object of the call
    refreshToken,  \* refreshToken[p]: the token sent in p's refresh exchange
    outcome,       \* outcome[p]: how p's call settled
    maxPages,      \* maxPages[p]: getPages' page counter
    result,        \* result[p]: getPages' accumulator
    res,           \* res[p]: the response request() resolved with
    chain,         \* chain[p]: the server's page chain p's call walks
    pagesArg,      \* history: the maxPages argument of p's getPages call
    nFetched,      \* history: request() calls made by p's getPages call
    nDispatch,     \* history: dispatches of p's current request() call
    nRefresh,      \* history: refresh exchanges issued by that call
    last,          \* history: the HTTP response p's latest step handled
    removed,       \* history: a 401 of the token endpoint removed refresh_token
    late,          \* history: p's call began after such a removal
    got            \* history: the latest accessor call and what came of it

vars == <<state, pc, op, options, refreshToken, outcome, maxPages, result, res,
          chain, pagesArg, nFetched, nDispatch, nRefresh, last, removed, late, got>>
\* All but got: what a context accessor leaves alone.
clientVars == <<state, pc, op, options, refreshToken, outcome, maxPages, result,
                res, chain, pagesArg, nFetched, nDispatch, nRefresh, last, removed,
                late>>

pageVars == <<maxPages, result, chain, pagesArg, nFetched>>

Bump(n) == IF n < MaxCount THEN n + 1 ELSE n

NoOutcome     == [kind |-> "none",     error |-> NoError]
Resolved      == [kind |-> "resolved", error |-> NoError]
Rejected(err) == [kind |-> "rejected", error |-> err]
NoOptions     == [url |-> 0, Authorization |-> NoHeader]
NoBundle      == [resourceType |-> "none", link |-> <<>>]
NoData        == [f \in {} |-> ""]
\* An HTTP response as a handler sees it: status 0 is "no response", data is
\* the body of a successful refresh exchange.
Response(origin, status, body, data) ==
    [origin |-> origin, status |-> status, body |-> body, data |-> data]
NoResponse    == Response("-", 0, "-", NoData)
Handles(p, response) == last' = [last EXCEPT ![p] = response]

\* The latest accessor call: its name, the field it looks up, whether it
\* returned or threw, the value, and the diagnostic it emitted.
Null == "null"
Returned(value, diagnostic) ==
    [kind |-> "returned", value |-> value, debug |-> diagnostic]
Thrown(name) == [kind |-> "thrown", value |-> name, debug |-> "-"]
Got(accessor, field, r) ==
    [accessor |-> accessor, field |-> field, kind |-> r.kind, value |-> r.value,
     debug |-> r.debug]
NotCalled == Got("none", "-", [kind |-> "none", value |-> Null, debug |-> "-"])

\* The states new Client(state) accepts: tokenResponse and scope present or
\* not, authorizeUri a string or undefined.
TokenParts(tokenResponses) ==
    { [has |-> FALSE, value |-> [f \in {} |-> ""]] }
        \cup { [has |-> TRUE, value |-> t] : t \in tokenResponses }
ScopeParts(scopes) ==
    { [has |-> FALSE, value |-> <<>>] } \cup { [has |-> TRUE, value |-> sc] : sc \in scopes }
ClientStates(tokenParts, scopeParts, authorizeUris) ==
    { [hasTokenResponse |-> t.has, tokenResponse |-> t.value,
       hasScope |-> sc.has, scope |-> sc.value, authorizeUri |-> u] :
         t \in tokenParts, sc \in scopeParts, u \in authorizeUris }

\* No call has been made on the client.
NoCalls ==
    /\ pc = [p \in Procs |-> "idle"]
    /\ op = [p \in Procs |-> "none"]
    /\ options = [p \in Procs |-> NoOptions]
    /\ refreshToken = [p \in Procs |-> Undefined]
    /\ outcome = [p \in Procs |-> NoOutcome]
    /\ maxPages = [p \in Procs |-> 0]
    /\ result = [p \in Procs |-> <<>>]
    /\ res = [p \in Procs |-> NoBundle]
    /\ chain = [p \in Procs |-> 1]
    /\ pagesArg = [p \in Procs |-> 0]
    /\ nFetched = [p \in Procs |-> 0]
    /\ nDispatch = [p \in Procs |-> 0]
    /\ nRefresh = [p \in Procs |-> 0]
    /\ last = [p \in Procs |-> NoResponse]
    /\ removed = FALSE
    /\ late = [p \in Procs |-> FALSE]
    /\ got = NotCalled

\* request(), refresh() and getPages() read tokenResponse only: the client
\* they run on has one scope and one authorizeUri.
Init ==
    /\ state \in ClientStates(TokenParts(InitialTokenResponses),
                               { [has |-> TRUE, value |-> DefaultScope] },
                               {"https://auth"})
    /\ NoCalls

\* ----------------------------------------------------------------- request
\* The frame of p's call: where it is suspended, how it settled, its options
\* object, the token its refresh exchange carries, and its history counters.
Frame(p, at, out, opts, tok, nd, nr) ==
    /\ pc' = [pc EXCEPT ![p] = at]
    /\ outcome' = [outcome EXCEPT ![p] = out]
    /\ options' = [options EXCEPT ![p] = opts]
    /\ refreshToken' = [refreshToken EXCEPT ![p] = tok]
    /\ nDispatch' = [nDispatch EXCEPT ![p] = nd]
    /\ nRefresh' = [nRefresh EXCEPT ![p] = nr]

\* The promise of p's call settles and its frame is gone.
Settle(p, out) == Frame(p, "idle", out, NoOptions, Undefined, 0, 0)

\* AuthorizationHeader with the spread the other way round: a header that is
\* already in the options wins.
AuthorizationHeaderKept(opts, accessToken) ==
    IF opts.Authorization # NoHeader THEN opts.Authorization
    ELSE IF Truthy(accessToken) THEN Bearer(accessToken) ELSE opts.Authorization

\* The Authorization header request() leaves in options.headers.
AuthorizationHeader(opts, accessToken) ==
    IF Truthy(accessToken) THEN Bearer(accessToken) ELSE opts.Authorization

\* request(options) up to the transport call: the header is computed from the
\* state as it is now and the call is dispatched.  n is the number of
\* dispatches of this request() call so far, this one included.
request(p, opts, n) ==
    LET accessToken == getPath(state, "access_token")
    IN  Frame(p, "request", NoOutcome,
              [opts EXCEPT !.Authorization = AuthorizationHeader(opts, accessToken)],
              Undefined, n, IF n = 1 THEN 0 ELSE nRefresh[p])

\* refresh without its precondition: the exchange is sent whatever the state
\* holds.
refreshUnguarded(p) ==
    Frame(p, "refresh", NoOutcome, options[p], getPath(state, "refresh_token"),
          nDispatch[p], Bump(nRefresh[p]))

\* refresh() up to the transport call: it fails at once without a refresh
\* token, and sends the token of the state otherwise.
refresh(p) ==
    IF ~state.hasTokenResponse \/ "refresh_token" \notin DOMAIN state.tokenResponse
          \/ ~Truthy(state.tokenResponse["refresh_token"])
    THEN Settle(p, Rejected(Error("Trying to refresh but there is no refresh token")))
    ELSE Frame(p, "refresh", NoOutcome, options[p], getPath(state, "refresh_token"),
               nDispatch[p], Bump(nRefresh[p]))

\* What the catch handler of request() throws for a failure that is not
\* answered with a refresh.
requestError(error) ==
    IF error.status # 0
    THEN LET body == Body(error.body)
             resourceType == body.resourceType
         IN  IF resourceType = "OperationOutcome"
             THEN IF "issue" \notin DOMAIN body THEN TypeError
                  ELSE IF Len(body.issue) # 0 THEN Error(JoinIssues(body.issue))
                  ELSE error
             ELSE error
    ELSE Error(getErrorText("no_fhir_response"))

\* refreshes with a missing response answered like a 401.
refreshesOnNoResponse(error) ==
    /\ error.status \in {0, 401}
    /\ Truthy(getPath(state, "refresh_token"))

\* refreshes with the exchange in flight shared: no second exchange is issued
\* while one is outstanding.
refreshesUnlessInFlight(error) ==
    /\ error.status = 401
    /\ Truthy(getPath(state, "refresh_token"))
    /\ \A q \in Procs : pc[q] # "refresh"

\* refreshes without the test for a refresh token.
refreshesOnAny401(error) == error.status = 401

\* Whether the catch handler of request() answers the failure with a refresh.
refreshes(error) ==
    /\ error.status = 401
    /\ Truthy(getPath(state, "refresh_token"))

\* requestCatch with getPages catching the failure of a page: the walk
\* resolves with the pages it has.
requestCatchEndsWalk(p, error) ==
    IF refreshes(error)
    THEN refresh(p)
    ELSE IF op[p] = "getPages"
    THEN Settle(p, Resolved)
    ELSE Settle(p, Rejected(requestError(error)))

\* requestCatch with an error status other than 401 answered by sending the
\* call again.
requestCatchRetries(p, error) ==
    IF error.status # 0 /\ error.status # 401
    THEN request(p, options[p], nDispatch[p])
    ELSE IF refreshes(error)
    THEN refresh(p)
    ELSE Settle(p, Rejected(requestError(error)))

\* The catch handler of request().
requestCatch(p, error) ==
    IF refreshes(error)
    THEN refresh(p)
    ELSE Settle(p, Rejected(requestError(error)))

\* --------------------------------------------------------- public methods
\* A caller calls request(options).
CallRequest(p) ==
    /\ pc[p] = "idle"
    /\ Handles(p, NoResponse)
    /\ late' = [late EXCEPT ![p] = removed]
    /\ UNCHANGED <<removed, got>>
    /\ op' = [op EXCEPT ![p] = "request"]
    /\ \E h \in {NoHeader, CallerHeader} :
          request(p, [url |-> 1, Authorization |-> h], 1)
    /\ UNCHANGED <<state, res, pageVars>>

\* A caller calls refresh().
CallRefresh(p) ==
    /\ pc[p] = "idle"
    /\ Handles(p, NoResponse)
    /\ late' = [late EXCEPT ![p] = removed]
    /\ UNCHANGED <<removed, got>>
    /\ op' = [op EXCEPT ![p] = "refresh"]
    /\ refresh(p)
    /\ UNCHANGED <<state, res, pageVars>>

\* A caller calls getPages(options, maxPages) on the first page of a chain.
CallGetPages(p) ==
    /\ pc[p] = "idle"
    /\ Handles(p, NoResponse)
    /\ late' = [late EXCEPT ![p] = removed]
    /\ UNCHANGED <<removed, got>>
    /\ op' = [op EXCEPT ![p] = "getPages"]
    /\ \E c \in ChainIds, n \in MinPagesArg..MaxN :
          /\ chain' = [chain EXCEPT ![p] = c]
          /\ maxPages' = [maxPages EXCEPT ![p] = n]
          /\ pagesArg' = [pagesArg EXCEPT ![p] = n]
    /\ result' = [result EXCEPT ![p] = <<>>]
    /\ nFetched' = [nFetched EXCEPT ![p] = 1]
    /\ request(p, [url |-> 1, Authorization |-> NoHeader], 1)
    /\ UNCHANGED <<state, res>>

\* ------------------------------------------------- the resource server answers
\* The dispatched call succeeds: request() resolves with the response.  A
\* request() call made by getPages hands it to getPages' callback.
ResourceOk(p) ==
    /\ pc[p] = "request"
    /\ IF op[p] = "getPages"
       THEN /\ res' = [res EXCEPT ![p] = Bundle(chain[p], options[p].url)]
            /\ Frame(p, "page", NoOutcome, options[p], Undefined, nDispatch[p], nRefresh[p])
       ELSE /\ Settle(p, Resolved)
            /\ UNCHANGED res
    /\ UNCHANGED <<state, op, pageVars>>
    /\ Handles(p, Response("resource", 200, "-", NoData))
    /\ UNCHANGED <<removed, late, got>>

\* The dispatched call fails with a 401 response.
Resource401(p) ==
    /\ pc[p] = "request"
    /\ \E b \in BodyIds :
          /\ requestCatch(p, AxiosError("resource", 401, b))
          /\ Handles(p, Response("resource", 401, b, NoData))
    /\ UNCHANGED <<removed, late, got>>
    /\ UNCHANGED <<state, op, res, pageVars>>

\* The dispatched call fails with another error status.
ResourceError(p) ==
    /\ pc[p] = "request"
    /\ \E b \in BodyIds :
          /\ requestCatch(p, AxiosError("resource", 500, b))
          /\ Handles(p, Response("resource", 500, b, NoData))
    /\ UNCHANGED <<removed, late, got>>
    /\ UNCHANGED <<state, op, res, pageVars>>

\* The dispatched call ends without a response.
ResourceNoResponse(p) ==
    /\ pc[p] = "request"
    /\ requestCatch(p, AxiosError("resource", 0, "-"))
    /\ Handles(p, Response("resource", 0, "-", NoData))
    /\ UNCHANGED <<removed, late, got>>
    /\ UNCHANGED <<state, op, res, pageVars>>

\* ---------------------------------------------------- the token endpoint answers
\* Merge as a wholesale replacement.
MergeReplaces(tokenResponse, data) == data

\* { ...this.state.tokenResponse, ...data }
Merge(tokenResponse, data) ==
    [f \in DOMAIN tokenResponse \cup DOMAIN data |->
        IF f \in DOMAIN data THEN data[f] ELSE tokenResponse[f]]

\* delete tokenResponse.refresh_token
DeleteRefreshToken(tokenResponse) ==
    [f \in DOMAIN tokenResponse \ {"refresh_token"} |-> tokenResponse[f]]

\* refreshCatch with the token removed on every error status.
refreshCatchOnAnyStatus(s, error) ==
    IF error.status # 0
    THEN [s EXCEPT !.tokenResponse = DeleteRefreshToken(@)]
    ELSE s

\* The state the catch handler of refresh() leaves.
refreshCatch(s, error) ==
    IF error.status = 401
    THEN [s EXCEPT !.tokenResponse = DeleteRefreshToken(@)]
    ELSE s

\* refreshThen with the replay left out: request() resolves after the refresh.
refreshThenNoReplay(p) == Settle(p, Resolved)

\* What follows a successful exchange of p: inside request() the replay is
\* the next callback; a refresh() called by the caller resolves.
refreshThen(p) ==
    IF op[p] = "refresh"
    THEN Settle(p, Resolved)
    ELSE Frame(p, "replay", NoOutcome, options[p], Undefined, nDispatch[p], nRefresh[p])

\* refreshFails with the error normalized as request() normalizes its own.
refreshFailsNormalized(p, error) ==
    Settle(p, Rejected(IF error.status = 0
                       THEN Error(getErrorText("no_fhir_response")) ELSE error))

\* What follows a failed exchange of p: the error is thrown on, to the caller
\* of refresh() and through request() to its caller.
refreshFails(p, error) == Settle(p, Rejected(error))

\* The exchange succeeds: the response is merged into the state.
TokenOk(p) ==
    /\ pc[p] = "refresh"
    /\ \E data \in RefreshData :
          /\ state' = [state EXCEPT !.tokenResponse = Merge(@, data)]
          /\ Handles(p, Response("token", 200, "-", data))
    /\ UNCHANGED <<removed, late, got>>
    /\ refreshThen(p)
    /\ UNCHANGED <<op, res, pageVars>>

\* The exchange fails, with a response of some status or without one
\* (status 0): the catch handler of refresh() runs and the error goes on.
TokenFail(p, status) ==
    /\ LET error == AxiosError("token", status, "-")
       IN  /\ state' = refreshCatch(state, error)
           /\ refreshFails(p, error)
    /\ Handles(p, Response("token", status, "-", NoData))
    /\ removed' = (removed \/ status = 401)
    /\ UNCHANGED <<late, got>>
    /\ UNCHANGED <<op, res, pageVars>>

\* The token endpoint answers 401.
Token401(p) ==
    /\ pc[p] = "refresh"
    /\ TokenFail(p, 401)

\* The token endpoint answers with another error status.
TokenError(p) ==
    /\ pc[p] = "refresh"
    /\ TokenFail(p, 500)

\* The exchange ends without a response.
TokenNoResponse(p) ==
    /\ pc[p] = "refresh"
    /\ TokenFail(p, 0)

\* Replay with the page counter of getPages decremented by the dispatch.
ReplayCountsPage(p) ==
    /\ pc[p] = "replay"
    /\ request(p, options[p], Bump(nDispatch[p]))
    /\ maxPages' = [maxPages EXCEPT ![p] = @ - 1]
    /\ UNCHANGED <<state, op, res, result, chain, pagesArg, nFetched>>
    /\ Handles(p, NoResponse)
    /\ UNCHANGED <<removed, late, got>>

\* .then(() => this.request(options)): the same options object is sent again.
Replay(p) ==
    /\ pc[p] = "replay"
    /\ request(p, options[p], Bump(nDispatch[p]))
    /\ UNCHANGED <<state, op, res, pageVars>>
    /\ Handles(p, NoResponse)
    /\ UNCHANGED <<removed, late, got>>

\* ----------------------------------------------------------------- getPages
\* continues with the counter tested before its decrement (maxPages--).
continuesPostDecrement(n, nextUrl) == n + 1 # 0 /\ nextUrl # 0

\* if (--maxPages) { nextUrl = ...; if (nextUrl) ... }: whether getPages goes
\* on to the next page, n being the counter after its decrement.
continues(n, nextUrl) == n # 0 /\ nextUrl # 0

\* The callback of getPages on the response of a page.
GetPagesThen(p) ==
    /\ pc[p] = "page"
    /\ LET bundle  == res[p]
           entry   == IF "entry" \in DOMAIN bundle THEN bundle.entry ELSE <<>>
           n       == maxPages[p] - 1
           nextUrl == getBundleURL(bundle, "next")
       IN  /\ result' = [result EXCEPT ![p] = @ \o entry]
           /\ maxPages' = [maxPages EXCEPT ![p] = n]
           /\ IF continues(n, nextUrl)
              THEN /\ nFetched[p] < MaxFetch
                   /\ nFetched' = [nFetched EXCEPT ![p] = @ + 1]
                   /\ request(p, [options[p] EXCEPT !.url = nextUrl], 1)
              ELSE /\ Settle(p, Resolved)
                   /\ UNCHANGED nFetched
    /\ res' = [res EXCEPT ![p] = NoBundle]
    /\ UNCHANGED <<state, op, chain, pagesArg>>
    /\ Handles(p, NoResponse)
    /\ UNCHANGED <<removed, late, got>>

\* -------------------------------------------------------- context accessors
\* jsonwebtoken: jwt.decode(idToken), the claim set of the token.
jwtDecode(idToken) == "claims of " \o idToken

\* this.state.scope.match(/\b<word>\b/) on a scope that is a string.
match(s, word) == \E i \in DOMAIN s.scope : word \in Words(s.scope[i])

\* The diagnostic for a client without token response.
notAuthorized(s) ==
    IF Truthy(s.authorizeUri)
    THEN Returned(Null, "not authorized yet")
    ELSE Returned(Null, "needs to be authorized first")

\* getPatientId()
getPatientId(s) ==
    IF s.hasTokenResponse
    THEN IF ~Truthy(getPath(s, "patient"))
         THEN IF ~s.hasScope THEN Thrown("TypeError")
              ELSE IF ~match(s, "launch")
              THEN Returned(Null, "not the right scopes")
              ELSE Returned(Null, "not available")
         ELSE Returned(s.tokenResponse["patient"], "-")
    ELSE notAuthorized(s)

\* getEncounterId()
getEncounterId(s) ==
    IF s.hasTokenResponse
    THEN IF ~Truthy(getPath(s, "encounter"))
         THEN IF ~s.hasScope THEN Thrown("TypeError")
              ELSE IF ~match(s, "launch")
              THEN Returned(Null, "not the right scopes")
              ELSE Returned(Null, "not available")
         ELSE Returned(s.tokenResponse["encounter"], "-")
    ELSE notAuthorized(s)

\* getIdToken()
getIdToken(s) ==
    IF s.hasTokenResponse
    THEN IF ~Truthy(getPath(s, "id_token"))
         THEN IF ~s.hasScope THEN Thrown("TypeError")
              ELSE IF ~match(s, "openid") \/ ~match(s, "connect")
              THEN Returned(Null, "not the right scopes")
              ELSE Returned(Null, "not available")
         ELSE Returned(jwtDecode(s.tokenResponse["id_token"]), "-")
    ELSE notAuthorized(s)

\* getTokenField(field)
getTokenField(s, field) ==
    IF s.hasTokenResponse
    THEN IF ~Truthy(getPath(s, field))
         THEN Returned(Null, "not available")
         ELSE Returned(s.tokenResponse[field], "-")
    ELSE notAuthorized(s)

\* The accessors are synchronous: a call is one step, at any moment between
\* the steps of the calls in flight.
GetPatientId ==
    /\ got' = Got("getPatientId", "patient", getPatientId(state))
    /\ UNCHANGED clientVars

GetEncounterId ==
    /\ got' = Got("getEncounterId", "encounter", getEncounterId(state))
    /\ UNCHANGED clientVars

GetIdToken ==
    /\ got' = Got("getIdToken", "id_token", getIdToken(state))
    /\ UNCHANGED clientVars

GetTokenField ==
    /\ \E field \in ContextFields \cup {"expires_in"} :
          got' = Got("getTokenField", field, getTokenField(state, field))
    /\ UNCHANGED clientVars

\* ------------------------------------------------------------ specification
\* Callers of request() and refresh() that share the state.
Next ==
    \E p \in Procs :
        \/ CallRequest(p)
        \/ CallRefresh(p)
        \/ ResourceOk(p)
        \/ Resource401(p)
        \/ ResourceError(p)
        \/ ResourceNoResponse(p)
        \/ TokenOk(p)
        \/ Token401(p)
        \/ TokenError(p)
        \/ TokenNoResponse(p)
        \/ Replay(p)

Spec == Init /\ [][Next]_vars

\* One caller of getPages().
Walker == 1
NextPages ==
    \/ CallGetPages(Walker)
    \/ ResourceOk(Walker)
    \/ Resource401(Walker)
    \/ ResourceError(Walker)
    \/ ResourceNoResponse(Walker)
    \/ TokenOk(Walker)
    \/ Token401(Walker)
    \/ TokenError(Walker)
    \/ TokenNoResponse(Walker)
    \/ Replay(Walker)
    \/ GetPagesThen(Walker)

PagesSpec == Init /\ [][NextPages]_vars

\* One caller of request() and one caller of refresh() on the same state, every
\* HTTP call completing and every pending callback running in the end.
Requester == 1
Refresher == 2
ResourceAnswers(p) ==
    \/ ResourceOk(p) \/ Resource401(p) \/ ResourceError(p) \/ ResourceNoResponse(p)
TokenAnswers(p) ==
    \/ TokenOk(p) \/ Token401(p) \/ TokenError(p) \/ TokenNoResponse(p)
NextLive ==
    \/ CallRequest(Requester)
    \/ ResourceAnswers(Requester)
    \/ TokenAnswers(Requester)
    \/ Replay(Requester)
    \/ CallRefresh(Refresher)
    \/ TokenAnswers(Refresher)

LiveSpec ==
    /\ Init /\ [][NextLive]_vars
    /\ WF_vars(ResourceAnswers(Requester))
    /\ WF_vars(TokenAnswers(Requester))
    /\ WF_vars(Replay(Requester))
    /\ WF_vars(TokenAnswers(Refresher))

\* A client in any state of authorization whose user reads the context while
\* refresh() calls change the token response.
Reader == 1
AccessorInit ==
    /\ state \in ClientStates(TokenParts(ContextTokenResponses), ScopeParts(Scopes),
                               {Undefined, "https://auth"})
    /\ NoCalls
NextAccessors ==
    \/ GetPatientId
    \/ GetEncounterId
    \/ GetIdToken
    \/ GetTokenField
    \/ CallRefresh(Reader)
    \/ TokenOk(Reader)
    \/ Token401(Reader)
    \/ TokenError(Reader)
    \/ TokenNoResponse(Reader)

AccessorSpec == AccessorInit /\ [][NextAccessors]_vars

TypeOK ==
    /\ pc \in [Procs -> {"idle", "request", "refresh", "replay", "page"}]
    /\ op \in [Procs -> {"none", "request", "refresh", "getPages"}]
    /\ \A p \in Procs : nDispatch[p] \in 0..MaxCount /\ nRefresh[p] \in 0..MaxCount

\* ------------------------------------------------------------------- claims
HasRefreshToken(s) == Truthy(getPath(s, "refresh_token"))
HasAccessToken(s)  == Truthy(getPath(s, "access_token"))

\* p's step handles an HTTP response of that origin and status.
Handled(p, origin, status) ==
    /\ last'[p] # last[p]
    /\ last'[p].origin = origin
    /\ last'[p].status = status

\* p's call is a request() call, made by the caller or by getPages.
InRequest(p) == op[p] \in {"request", "getPages"}

\* C1: inside one request() call every 401 met while a refresh token is
\* present issues exactly one refresh exchange (carrying the token of the
\* state) and no dispatch; a successful exchange is followed by exactly one
\* more dispatch of the same request; a dispatch that is not the first of its
\* call always comes directly after a successful exchange of that call.  So
\* the dispatches of a call are one more than its successful exchanges.
C1_Step(p) ==
    /\ (Handled(p, "resource", 401) /\ HasRefreshToken(state))
          => /\ pc'[p] = "refresh"
             /\ refreshToken'[p] = getPath(state, "refresh_token")
             /\ nRefresh'[p] = Bump(nRefresh[p])
             /\ nDispatch'[p] = nDispatch[p]
    /\ (Handled(p, "token", 200) /\ InRequest(p))
          => /\ pc'[p] = "replay"
             /\ nDispatch'[p] = nDispatch[p]
             /\ nRefresh'[p] = nRefresh[p]
    /\ (pc[p] = "replay" /\ pc'[p] # "replay")
          => /\ pc'[p] = "request"
             /\ nDispatch'[p] = Bump(nDispatch[p])
             /\ nRefresh'[p] = nRefresh[p]
             /\ options'[p].url = options[p].url
    /\ (pc'[p] = "request" /\ pc[p] \notin {"request", "idle", "page"})
          => /\ pc[p] = "replay"
             /\ last[p].origin = "token" /\ last[p].status = 200
C1_Count(p) ==
    /\ (pc[p] = "request" /\ nDispatch[p] < MaxCount) => nRefresh[p] = nDispatch[p] - 1
    /\ (pc[p] = "refresh" /\ InRequest(p) /\ nRefresh[p] < MaxCount)
          => nDispatch[p] = nRefresh[p]
    /\ (pc[p] = "replay" /\ nDispatch[p] < MaxCount) => nRefresh[p] = nDispatch[p]
C1_RefreshThenReplay ==
    /\ [](\A p \in Procs : C1_Count(p))
    /\ [][\A p \in Procs : C1_Step(p)]_vars
\* A call is in its second refresh exchange: its replay met a 401 again.
C1_Witness ==
    \E p \in Procs : op[p] = "request" /\ pc[p] = "refresh" /\ nRefresh[p] = 2

\* C2 (as claimed): a 401 of the token endpoint removes refresh_token and the
\* caller receives that error; a request() begun after such a removal that
\* meets a 401 issues no refresh exchange.
C2_Claim ==
    [][\A p \in Procs :
        /\ Handled(p, "token", 401)
              => /\ ~HasRefreshToken(state')
                 /\ pc'[p] = "idle"
                 /\ outcome'[p] = Rejected(AxiosError("token", 401, "-"))
        /\ (late[p] /\ InRequest(p) /\ Handled(p, "resource", 401))
              => pc'[p] # "refresh"]_vars

\* C3 (as claimed): every request() call settles in the end.
C3_Claim ==
    (op[Requester] = "request" /\ pc[Requester] # "idle") ~> (pc[Requester] = "idle")
\* C3 (amended): a request() call settles in the end unless it is replayed
\* again and again, every replay answered 401 after a refresh that succeeded.
C3_SettlesOrReplaysForever ==
    \/ []<>(pc[Requester] = "replay")
    \/ (op[Requester] = "request" /\ pc[Requester] # "idle") ~> (pc[Requester] = "idle")
\* A request() call went through a refresh exchange and settled with the
\* terminal error the exchange ended in.
C3_Witness ==
    /\ op[Requester] = "request" /\ pc[Requester] = "idle"
    /\ outcome[Requester] = Rejected(AxiosError("token", 500, "-"))

\* C4 (as claimed): once a 401 of the token endpoint has removed
\* refresh_token, no step makes it present again.
C4_Claim ==
    [][(removed /\ ~HasRefreshToken(state)) => ~HasRefreshToken(state')]_vars

\* C5: every dispatch made while an access token is present carries
\* Authorization = Bearer <the access token of the state at that moment>,
\* whatever header the options held before (the caller's, or the header of
\* the dispatch before a refresh).
C5_Step(p) ==
    (pc'[p] = "request" /\ pc[p] # "request" /\ HasAccessToken(state))
        => options'[p].Authorization = Bearer(getPath(state, "access_token"))
C5_BearerOfCurrentToken == [][\A p \in Procs : C5_Step(p)]_vars
\* A replay is in flight that carries the token a refresh delivered.
C5_Witness ==
    \E p \in Procs :
        /\ pc[p] = "request" /\ nDispatch[p] = 2
        /\ options[p].Authorization = Bearer("a2")

\* C6: a successful exchange leaves in tokenResponse the response's value for
\* every field the response names and the previous value for every other
\* field, and no other field.
C6_Step(p) ==
    Handled(p, "token", 200) =>
        LET old  == state.tokenResponse
            new  == state'.tokenResponse
            data == last'[p].data
        IN  /\ DOMAIN new = DOMAIN old \cup DOMAIN data
            /\ \A f \in DOMAIN data : new[f] = data[f]
            /\ \A f \in DOMAIN old \ DOMAIN data : new[f] = old[f]
C6_MergeOnRefresh == [][\A p \in Procs : C6_Step(p)]_vars
\* A response that names access_token only was merged: the old refresh_token
\* and patient are still there.
C6_Witness ==
    \E p \in Procs :
        /\ last[p].origin = "token" /\ last[p].status = 200
        /\ DOMAIN last[p].data = {"access_token"}
        /\ state.tokenResponse =
              [access_token |-> "a2", refresh_token |-> "r1", patient |-> "p1"]

\* p's step handles a 401 of the resource server with no refresh token in
\* the state.
Unrecovered401(p) == Handled(p, "resource", 401) /\ ~HasRefreshToken(state)
NoRecovery(p) ==
    /\ pc'[p] = "idle"
    /\ state' = state
    /\ nRefresh'[p] = 0 /\ nDispatch'[p] = 0
\* C7 (as claimed): such a 401 is answered with no refresh and no replay, and
\* the caller receives the failure itself, whatever its body.
C7_Claim ==
    [][\A p \in Procs :
        Unrecovered401(p) =>
            /\ NoRecovery(p)
            /\ outcome'[p] = Rejected(AxiosError("resource", 401, last'[p].body))]_vars
\* C7 (amended): such a 401 is answered with no refresh and no replay; the
\* caller receives the failure itself when the body is no OperationOutcome or
\* one with an empty issue list, a new error with the issues' texts when it is
\* an OperationOutcome with issues, and the handler's TypeError when it is an
\* OperationOutcome without an issue list.
C7_Expected(b) ==
    CASE b = "plain"  -> AxiosError("resource", 401, b)
      [] b = "oo0"    -> AxiosError("resource", 401, b)
      [] b = "oo1"    -> Error("error invalid bad param")
      [] b = "oo2"    -> Error("error invalid bad param\nwarning timeout slow")
      [] b = "ooNone" -> TypeError
C7_NoRecoveryWithoutToken ==
    [][\A p \in Procs :
        Unrecovered401(p) =>
            /\ NoRecovery(p)
            /\ outcome'[p] = Rejected(C7_Expected(last'[p].body))]_vars
\* A 401 with an OperationOutcome body met without a refresh token.
C7_Witness ==
    \E p \in Procs :
        /\ op[p] = "request" /\ pc[p] = "idle"
        /\ last[p] = Response("resource", 401, "oo1", NoData)
        /\ outcome[p] = Rejected(Error("error invalid bad param"))
        /\ ~HasRefreshToken(state)

\* C8: a refresh exchange issued by request() that fails, with any status or
\* with no response, settles the request() call with the error of the
\* exchange and without another dispatch.
C8_Step(p) ==
    (/\ InRequest(p) /\ pc[p] = "refresh"
     /\ last'[p] # last[p] /\ last'[p].origin = "token" /\ last'[p].status # 200)
        => /\ pc'[p] = "idle"
           /\ outcome'[p] = Rejected(AxiosError("token", last'[p].status, "-"))
C8_RefreshErrorSurfaced == [][\A p \in Procs : C8_Step(p)]_vars
\* Two request() calls ended in the error of their refresh exchange: a 401 and
\* a missing response.
C8_Witness ==
    /\ \A p \in Procs : op[p] = "request" /\ pc[p] = "idle"
    /\ outcome[1] = Rejected(AxiosError("token", 401, "-"))
    /\ outcome[2] = Rejected(AxiosError("token", 0, "-"))

\* The number of pages of chain c from page u on: Endless for a cycle.
Endless == 0 - 1
RECURSIVE ChainLength(_, _, _)
ChainLength(c, u, seen) ==
    IF u = 0 THEN 0
    ELSE IF u \in seen THEN Endless
    ELSE LET rest == ChainLength(c, Chains[c][u], seen \cup {u})
         IN  IF rest = Endless THEN Endless ELSE 1 + rest
MinPages(n, k) == IF k = Endless \/ n <= k THEN n ELSE k
\* The entries of the first m pages of chain c from page u on.
RECURSIVE EntriesOfFirst(_, _, _)
EntriesOfFirst(c, u, m) ==
    IF m = 0 THEN <<>>
    ELSE PageEntries[u] \o EntriesOfFirst(c, Chains[c][u], m - 1)
WalkResolved(p) ==
    op[p] = "getPages" /\ pc[p] = "idle" /\ outcome[p].kind = "resolved"

\* C9: getPages with maxPages = n >= 1 on a chain of k pages never makes more
\* than min(n, k) page requests, and resolves after exactly min(n, k) of
\* them with the entries of those pages in order.
C9_PagesUpToCap ==
    \A p \in Procs :
        (op[p] = "getPages" /\ pagesArg[p] >= 1) =>
            LET m == MinPages(pagesArg[p], ChainLength(chain[p], 1, {}))
            IN  /\ nFetched[p] <= m
                /\ WalkResolved(p) =>
                      /\ nFetched[p] = m
                      /\ result[p] = EntriesOfFirst(chain[p], 1, m)
\* A walk of three pages round the cycle page1 -> page2 -> page1 resolved.
C9_Witness ==
    /\ WalkResolved(Walker)
    /\ chain[Walker] = 4 /\ pagesArg[Walker] = 3 /\ nFetched[Walker] = 3
    /\ result[Walker] = <<"e1", "e2", "e1", "e2">>

\* C10 (as claimed): getPages with maxPages <= 0 requests the first page only
\* and resolves with its entries.
C10_Claim ==
    \A p \in Procs :
        (op[p] = "getPages" /\ pagesArg[p] <= 0) =>
            /\ nFetched[p] <= 1
            /\ WalkResolved(p) => result[p] = PageEntries[1]

\* p's step handles an error response of the resource server that is not
\* answered with a refresh.
HttpFailure(p) ==
    /\ last'[p] # last[p]
    /\ last'[p].origin = "resource"
    /\ last'[p].status \in {401, 500}
    /\ ~(last'[p].status = 401 /\ HasRefreshToken(state))
\* C11 (as claimed): such a failure is rejected with the issues' texts, one
\* per line, when the body is an OperationOutcome with a non-empty issue
\* list, and with the failure itself for every other body, an
\* OperationOutcome with an empty or absent issue list included.
C11_Expected(status, b) ==
    CASE b = "oo1"  -> Error("error invalid bad param")
      [] b = "oo2"  -> Error("error invalid bad param\nwarning timeout slow")
      [] OTHER      -> AxiosError("resource", status, b)
C11_Claim ==
    [][\A p \in Procs :
        HttpFailure(p) =>
            /\ pc'[p] = "idle"
            /\ outcome'[p] = Rejected(C11_Expected(last'[p].status, last'[p].body))]_vars

\* C12: a dispatch that ends without a response settles the request() call
\* with the fixed "no response" error; no refresh exchange is issued and the
\* request is not sent again, with or without a refresh token in the state.
C12_Step(p) ==
    Handled(p, "resource", 0) =>
        /\ pc'[p] = "idle"
        /\ outcome'[p] = Rejected(Error("No response received from the FHIR server"))
        /\ nRefresh'[p] = 0 /\ nDispatch'[p] = 0
        /\ refreshToken'[p] = Undefined
        /\ state' = state
C12_NoResponseIsTerminal == [][\A p \in Procs : C12_Step(p)]_vars
\* A request() call ended in the "no response" error while a refresh token
\* was there to use.
C12_Witness ==
    \E p \in Procs :
        /\ op[p] = "request" /\ pc[p] = "idle"
        /\ last[p] = Response("resource", 0, "-", NoData)
        /\ outcome[p] = Rejected(Error("No response received from the FHIR server"))
        /\ HasRefreshToken(state)

\* C13: a refresh exchange that fails with another status than 401, or
\* without a response, hands on the error of the exchange and changes
\* nothing in the state: refresh_token and every other field stay.
C13_Step(p) ==
    (/\ pc[p] = "refresh"
     /\ last'[p] # last[p] /\ last'[p].origin = "token"
     /\ last'[p].status \notin {200, 401})
        => /\ state' = state
           /\ pc'[p] = "idle"
           /\ outcome'[p] = Rejected(AxiosError("token", last'[p].status, "-"))
C13_OtherFailureLeavesState == [][\A p \in Procs : C13_Step(p)]_vars
\* A refresh() call failed with status 500 and another without a response,
\* and the refresh token is still in the state.
C13_Witness ==
    /\ \A p \in Procs : op[p] = "refresh" /\ pc[p] = "idle"
    /\ outcome[1] = Rejected(AxiosError("token", 500, "-"))
    /\ outcome[2] = Rejected(AxiosError("token", 0, "-"))
    /\ getPath(state, "refresh_token") = "r1"

\* C14: refresh() called without a token response, or with one that holds
\* no refresh_token, is rejected at once with its own error: no exchange is
\* sent and the state stays as it is.
C14_Step(p) ==
    (CallRefresh(p) /\ ~HasRefreshToken(state))
        => /\ pc'[p] = "idle"
           /\ outcome'[p] = Rejected(Error("Trying to refresh but there is no refresh token"))
           /\ nRefresh'[p] = 0
           /\ refreshToken'[p] = Undefined
           /\ state' = state
C14_RefreshNeedsToken == [][\A p \in Procs : C14_Step(p)]_vars
\* refresh() was rejected that way on a client without a token response, and
\* on one whose token response holds no refresh_token.
C14_Witness ==
    \E p \in Procs :
        /\ op[p] = "refresh" /\ pc[p] = "idle"
        /\ outcome[p] = Rejected(Error("Trying to refresh but there is no refresh token"))
        /\ state.hasTokenResponse /\ "refresh_token" \notin DOMAIN state.tokenResponse
        /\ "access_token" \in DOMAIN state.tokenResponse

\* C16: a request() call that meets a 401 while a refresh token is present
\* issues a refresh exchange of its own also when an exchange of another call
\* is outstanding: that exchange stays outstanding, and the new one carries
\* the token of the state, which may be the token the other one carries.
C16_Step(p) ==
    (/\ InRequest(p) /\ Handled(p, "resource", 401) /\ HasRefreshToken(state)
     /\ \E q \in Procs \ {p} : pc[q] = "refresh")
        => /\ pc'[p] = "refresh"
           /\ refreshToken'[p] = getPath(state, "refresh_token")
           /\ nRefresh'[p] = Bump(nRefresh[p])
           /\ \A q \in Procs \ {p} :
                 pc[q] = "refresh" =>
                    pc'[q] = "refresh" /\ refreshToken'[q] = refreshToken[q]
C16_OwnRefreshEach == [][\A p \in Procs : C16_Step(p)]_vars
\* Two request() calls have each an exchange outstanding, both carrying r1.
C16_Witness ==
    /\ \A p \in Procs : op[p] = "request" /\ pc[p] = "refresh" /\ nRefresh[p] = 1
    /\ refreshToken[1] = "r1" /\ refreshToken[2] = "r1"

\* C17 (as claimed): a 401 of the token endpoint removes refresh_token only
\* when the token in the state is the one the rejected exchange carried.
C17_Claim ==
    [][\A p \in Procs :
        (Handled(p, "token", 401) /\ HasRefreshToken(state) /\ ~HasRefreshToken(state'))
            => getPath(state, "refresh_token") = refreshToken[p]]_vars

\* The pages p's walk has consumed: all it requested once it has resolved,
\* all but the one being fetched before.
Consumed(p) == IF WalkResolved(p) THEN nFetched[p] ELSE nFetched[p] - 1
\* C18: whatever 401/refresh/replay cycles the fetch of a page goes through,
\* the accumulator holds the entries of the consumed pages once each and in
\* order, and the counter is its argument less the number of consumed pages;
\* no step of a cycle touches either.
C18_Once(p) ==
    op[p] = "getPages" =>
        /\ result[p] = EntriesOfFirst(chain[p], 1, Consumed(p))
        /\ maxPages[p] = pagesArg[p] - Consumed(p)
C18_Step(p) ==
    (op[p] = "getPages" /\ pc[p] \in {"request", "refresh", "replay"})
        => /\ result'[p] = result[p]
           /\ maxPages'[p] = maxPages[p]
           /\ nFetched'[p] = nFetched[p]
C18_CyclesInvisible ==
    /\ [](\A p \in Procs : C18_Once(p))
    /\ [][\A p \in Procs : C18_Step(p)]_vars
\* The second page of a walk arrived with the third dispatch of its request,
\* after two refresh cycles, and the first page's entries are in the result.
C18_Witness ==
    /\ op[Walker] = "getPages" /\ pc[Walker] = "page"
    /\ nFetched[Walker] = 2 /\ nDispatch[Walker] = 3 /\ nRefresh[Walker] = 2
    /\ result[Walker] = <<"e1", "e2">>
    /\ maxPages[Walker] = pagesArg[Walker] - 1

\* The error a request() call ends in on the response its last step handled.
TerminalError(response) ==
    IF response.origin = "token"
    THEN AxiosError("token", response.status, "-")
    ELSE IF response.status = 0
    THEN Error("No response received from the FHIR server")
    ELSE CASE response.body = "oo1"    -> Error("error invalid bad param")
           [] response.body = "oo2"    -> Error("error invalid bad param\nwarning timeout slow")
           [] response.body = "ooNone" -> TypeError
           [] OTHER -> AxiosError("resource", response.status, response.body)
\* C19: when the request for a page fails for good, in the dispatch or in a
\* refresh exchange, getPages is rejected with the error of that request,
\* requests no further page and leaves the accumulator as it is; a walk
\* resolves only from its callback on a page that arrived.
C19_Step(p) ==
    /\ (op[p] = "getPages" /\ pc[p] \in {"request", "refresh"} /\ pc'[p] = "idle")
          => /\ outcome'[p] = Rejected(TerminalError(last'[p]))
             /\ nFetched'[p] = nFetched[p]
             /\ result'[p] = result[p]
    /\ (op[p] = "getPages" /\ pc[p] # "idle" /\ outcome'[p].kind = "resolved")
          => pc[p] = "page"
C19_Rejected(p) ==
    (op[p] = "getPages" /\ outcome[p].kind = "rejected")
        => /\ pc[p] = "idle"
           /\ outcome[p].error # NoError
C19_WalkFailsWithPageError ==
    /\ [](\A p \in Procs : C19_Rejected(p))
    /\ [][\A p \in Procs : C19_Step(p)]_vars
\* A walk was rejected with the error of its second page, the first page's
\* entries already accumulated.
C19_Witness ==
    /\ op[Walker] = "getPages" /\ pc[Walker] = "idle"
    /\ outcome[Walker] = Rejected(AxiosError("resource", 500, "plain"))
    /\ nFetched[Walker] = 2
    /\ result[Walker] = <<"e1", "e2">>

\* What the accessor of got has to return on state s: null when the field
\* is absent, the field's value otherwise, decoded in the case of getIdToken.
ContextValue(s, accessor, field) ==
    IF ~Truthy(getPath(s, field)) THEN Null
    ELSE IF accessor = "getIdToken" THEN jwtDecode(getPath(s, field))
    ELSE getPath(s, field)
\* C15 (as claimed): an accessor call never throws, whatever of
\* tokenResponse, authorizeUri, scope and the field is there: it returns null
\* for an absent field and the field's value otherwise, and leaves the state
\* as it is.
C15_Claim ==
    [][got' # got =>
          /\ got'.kind = "returned"
          /\ got'.value = ContextValue(state, got'.accessor, got'.field)
          /\ state' = state]_vars

====
